---------------------------- MODULE Spec2Model ----------------------------
(***************************************************************************)
(* A model of the Gemini PDF knowledge base (gemini_podcast_kb):           *)
(*   ingest_pdfs.py  get_client, wait_for_operation, get_or_create_store,  *)
(*                   file_resource_name, ingest_pdfs                       *)
(*   app.py          ask_question, suggest_questions, push_history,        *)
(*                   ingest_uploaded_pdfs, the Streamlit session state     *)
(*                   and its button handlers                               *)
(*   query.py        build_metadata_filter, main                           *)
(* Text is a sequence of one-character strings; a character outside ASCII  *)
(* is written by its code point ("U+00E9").                                *)
(***************************************************************************)
EXTENDS Integers, Sequences, FiniteSets, TLC

(***************************************************************************)
(* Bounds of the model.                                                    *)
(***************************************************************************)
\* the longest list of files handed to one ingest call
MaxFiles == 2
\* the number of ingest calls followed in one session
MaxRuns == 2
\* the longest head and tail of the titles given to file_resource_name
MaxAffix == 1
\* how far beyond the snippet cap the generated chunk texts reach
MaxOver == 2

(***************************************************************************)
(* Python values.                                                          *)
(***************************************************************************)
\* Python's None, kept apart from every string the program handles
None == "<None>"

\* truthiness of a value of type `str | None`
Truthy(s) == s # None /\ s # ""

Max(a, b) == IF a >= b THEN a ELSE b

Min(a, b) == IF a <= b THEN a ELSE b

\* s[:n] for n >= 0
Take(s, n) == SubSeq(s, 1, Min(n, Len(s)))

\* the sequences that list the finite set S once each, in any order
Perms(S) ==
  { s \in [1..Cardinality(S) -> S] :
      \A i, j \in 1..Cardinality(S) : i # j => s[i] # s[j] }

(***************************************************************************)
(* Characters: str.lower, str.isalnum, str.strip.                          *)
(***************************************************************************)
AsciiLower ==
  << "a","b","c","d","e","f","g","h","i","j","k","l","m",
     "n","o","p","q","r","s","t","u","v","w","x","y","z" >>

AsciiUpper ==
  << "A","B","C","D","E","F","G","H","I","J","K","L","M",
     "N","O","P","Q","R","S","T","U","V","W","X","Y","Z" >>

AsciiDigits == { "0","1","2","3","4","5","6","7","8","9" }

Range(s) == { s[i] : i \in DOMAIN s }

\* characters str.strip() removes
Whitespace == { " ", "\t", "\n", "\r" }

\* letters outside ASCII: e-acute, E-acute, the CJK ideograph U+66F8 (no
\* case), capital I with dot above, and the mathematical bold capital A
\* U+1D400 (upper case, with no lower-case mapping)
NonAsciiAlnum == { "U+00E9", "U+00C9", "U+66F8", "U+0130", "U+1D400" }

\* str.lower() of one character; U+0130 lowers to two code points
LowerChar(c) ==
  IF \E i \in DOMAIN AsciiUpper : AsciiUpper[i] = c
    THEN << AsciiLower[CHOOSE i \in DOMAIN AsciiUpper : AsciiUpper[i] = c] >>
    ELSE IF c = "U+00C9" THEN << "U+00E9" >>
    ELSE IF c = "U+0130" THEN << "i", "U+0307" >>
    ELSE << c >>

RECURSIVE Lower(_)
Lower(s) == IF s = << >> THEN << >> ELSE LowerChar(Head(s)) \o Lower(Tail(s))

\* str.isalnum() of one character
IsAlnum(c) ==
  c \in Range(AsciiLower) \cup Range(AsciiUpper) \cup AsciiDigits \cup NonAsciiAlnum

RECURSIVE LStrip(_, _)
LStrip(s, chars) ==
  IF s # << >> /\ Head(s) \in chars THEN LStrip(Tail(s), chars) ELSE s

RECURSIVE RStrip(_, _)
RStrip(s, chars) ==
  IF s # << >> /\ s[Len(s)] \in chars
    THEN RStrip(SubSeq(s, 1, Len(s) - 1), chars)
    ELSE s

\* str.strip(chars)
Strip(s, chars) == RStrip(LStrip(s, chars), chars)

(***************************************************************************)
(* ingest_pdfs.py: file_resource_name.  The uuid4 suffix is an argument.   *)
(***************************************************************************)
\* the length limit of a resource name
MaxResourceLen == 40

\* uuid.uuid4().hex[:8]
SuffixLen == 8

FileWord == << "f", "i", "l", "e" >>

\* "".join(c if c.isalnum() else "-" for c in value.lower().strip()).strip("-")
Slug(value) ==
  LET cleaned == Strip(Lower(value), Whitespace)
      dashed  == [i \in DOMAIN cleaned |->
                    IF IsAlnum(cleaned[i]) THEN cleaned[i] ELSE "-"]
  IN  Strip(dashed, {"-"})

file_resource_name(value, suffix) ==
  LET slug0    == Slug(value)
      slug1    == IF slug0 = << >> THEN FileWord ELSE slug0
      max_base == Max(1, MaxResourceLen - Len(suffix) - 1)
      cut      == Take(slug1, max_base)
      slug2    == IF cut = << >> THEN FileWord ELSE cut
  IN  slug2 \o << "-" >> \o suffix


(***************************************************************************)
(* The remote service and the files of a run.                              *)
(***************************************************************************)
\* a store that exists on the service before the session starts
ExistingStore == "fileSearchStores/existing"

\* an identifier the service knows no store for
MissingStore == "fileSearchStores/missing"

\* the identifier the service gives to the n-th store created
NewStoreName(n) == "fileSearchStores/new-" \o ToString(n)

\* a file name: Path.stem and the extension after the dot.  "c.PDF" passes
\* the uploader's type=["pdf"] and does not match glob("*.pdf") on POSIX
FileNames ==
  { [stem |-> << "a" >>, ext |-> "pdf"],
    [stem |-> << "B", " ", "2" >>, ext |-> "pdf"],
    [stem |-> << "c" >>, ext |-> "PDF"] }

\* an order of the file names
FileRank(f) == IF f.ext = "PDF" THEN 3 ELSE Len(f.stem)

\* the lists of uploaded files (names may repeat).  Every file is written
\* to the directory before any is read, so a list stands for its
\* reorderings
FileLists ==
  { fs \in UNION { [1..n -> FileNames] : n \in 0..MaxFiles } :
      \A i \in 1..(Len(fs) - 1) : FileRank(fs[i]) <= FileRank(fs[i + 1]) }

\* the folders given to the command line: file names are unique in a folder
Folders == { d \in SUBSET FileNames : Cardinality(d) <= MaxFiles }

\* folder_path.glob("*.pdf")
Matches(f) == f.ext = "pdf"

HexDigits ==
  << "0","1","2","3","4","5","6","7","8","9","a","b","c","d","e","f" >>

RECURSIVE Pow(_, _)
Pow(b, e) == IF e = 0 THEN 1 ELSE b * Pow(b, e - 1)

\* uuid.uuid4().hex[:8] of a uuid whose leading 32 bits are u (u < 2^31)
HexSuffix(u) ==
  [i \in 1..SuffixLen |-> HexDigits[((u \div Pow(16, SuffixLen - i)) % 16) + 1]]

\* the uuid drawn for the n-th upload of a call: a fresh value each time
FreshUuid(n) == 439041101 + n

\* the name the service gives back for an uploaded file
FilesPrefix == << "files/" >>

\* a variant of Metadata that leaves the source_type entry out
MetadataTitleOnly(book_title) ==
  << [key |-> "book_title", string_value |-> book_title] >>

\* the custom_metadata list of ingest_pdfs
Metadata(book_title) ==
  << [key |-> "source_type", string_value |-> << "book" >>],
     [key |-> "book_title", string_value |-> book_title] >>

\* the most status refreshes that find an operation still running
MaxPolls == 1

\* ingest_pdfs returns a store name or None, never a count
NoCount == -1

NoErr == "none"

NoOp == [done |-> FALSE, error |-> FALSE]

VARIABLES
  apiKey,         \* whether GEMINI_API_KEY is set
  session_store,  \* st.session_state["store_name"]
  resolved,       \* history: the store names get_or_create_store returned
  stores,         \* the stores that exist on the service
  docs,           \* the documents indexed on the service: [store, title]
  runs,           \* ingest calls started
  pc,             \* where the current ingest call stands
  entry,          \* "folder" | "uploaded" | "button"
  files,          \* the files argument of ingest_uploaded_pdfs
  folder,         \* the files in the folder ingest_pdfs reads
  store_name,     \* the store_name argument
  store,          \* store.name as resolved by get_or_create_store
  pdf_files,      \* list(folder_path.glob("*.pdf"))
  idx,            \* the loop index of ingest_pdfs (from 1)
  uploaded_file,  \* uploaded_file.name
  op,             \* the operation handle wait_for_operation holds
  remoteOp,       \* the import job on the service: none|running|ok|failed
  jobs,           \* the import jobs of the call on the service, by file
  polls,          \* client.operations.get calls of the current wait
  ret,            \* the value returned to the caller: [count, store]
  err,            \* the exception that left the call
  uploads,        \* client.files.upload calls of the call
  imports,        \* import_file calls of the call
  nWait,          \* wait_for_operation calls of the call
  nFetch,         \* file_search_stores.get calls of the call
  nCreate,        \* file_search_stores.create calls of the call
  reported,       \* the "[PDF idx] Indexed" lines printed
  frn_value,      \* file_resource_name: the value argument
  frn_suffix,     \* file_resource_name: uuid.uuid4().hex[:8]
  frn_resource,   \* file_resource_name: the name returned
  frn_done,       \* file_resource_name: whether it has returned
  q_fn,           \* the query function called last
  q_args,         \* its arguments: [question, store_name, source_type]
  request,        \* the generate_content request it built
  response,       \* the response the service gave
  answer,         \* ask_question: the answer returned
  citations,      \* ask_question: the citations returned
  printed,        \* query.py main: the citations printed
  q_err,          \* the exception that left the query function
  q_calls,        \* the calls the query function made, in order
  s_count,        \* suggest_questions: the count argument
  s_text,         \* suggest_questions: response.text
  questions,      \* suggest_questions: the list returned
  history,        \* st.session_state["history"]
  pushed          \* the arguments of the push_history calls, in call order

sessionVars == << apiKey, session_store, resolved >>

remoteVars == << stores, docs, remoteOp, jobs >>

callVars ==
  << runs, pc, entry, files, folder, store_name, store, pdf_files, idx,
     uploaded_file, op, polls, ret, err >>

logVars == << uploads, imports, nWait, nFetch, nCreate, reported >>

ingestVars == << sessionVars, remoteVars, callVars, logVars >>

nameVars == << frn_value, frn_suffix, frn_resource, frn_done >>

queryVars ==
  << q_fn, q_args, request, response, answer, citations, printed, q_err,
     q_calls, s_count, s_text, questions >>

historyVars == << history, pushed >>

NoRet == [count |-> NoCount, store |-> None]

IngestInit ==
  /\ apiKey \in BOOLEAN
  /\ session_store \in { "", ExistingStore, MissingStore }
  /\ resolved = { }
  /\ stores = { ExistingStore }
  /\ docs = { }
  /\ remoteOp = "none"
  /\ jobs = << >>
  /\ runs = 0
  /\ pc = "idle"
  /\ entry = "folder"
  /\ files = << >>
  /\ folder = { }
  /\ store_name = None
  /\ store = None
  /\ pdf_files = << >>
  /\ idx = 0
  /\ uploaded_file = << >>
  /\ op = NoOp
  /\ polls = 0
  /\ ret = NoRet
  /\ err = NoErr
  /\ uploads = << >>
  /\ imports = << >>
  /\ nWait = 0
  /\ nFetch = 0
  /\ nCreate = 0
  /\ reported = << >>

(***************************************************************************)
(* How a call ends.                                                        *)
(***************************************************************************)
\* a variant of Raise in which the failure is caught and the call returns
RaiseSwallowed(e) ==
  /\ pc' = "returned"
  /\ err' = e
  /\ UNCHANGED << ret, session_store >>

\* an exception leaves ingest_pdfs: nothing in it or in
\* ingest_uploaded_pdfs catches one; the button handler shows it
\* (app.py, except Exception) and leaves the session state as it is
Raise(e) ==
  /\ pc' = "raised"
  /\ err' = e
  /\ UNCHANGED << ret, session_store >>

\* ingest_pdfs returns v (None or store.name) to its caller:
\*   the command line drops it; ingest_uploaded_pdfs pairs it with
\*   len(files); the button handler stores a truthy one in the session
Return(v) ==
  /\ pc' = "returned"
  /\ ret' = IF entry = "folder"
              THEN [count |-> NoCount, store |-> v]
              ELSE [count |-> Len(files), store |-> v]
  /\ session_store' = IF entry = "button" /\ Truthy(v) THEN v ELSE session_store
  /\ UNCHANGED err

Idle == pc \in { "idle", "returned", "raised" }

\* a behaviour follows one process: a command line run, which makes one
\* call, or a Streamlit session, whose calls all come from its button
InSession == runs = 0 \/ entry = "button"

\* the state of a call as it starts
StartCall(e, fs, d, sn) ==
  /\ Idle
  /\ IF e = "button" THEN InSession /\ runs < MaxRuns ELSE runs = 0
  /\ runs' = runs + 1
  /\ entry' = e
  /\ files' = fs
  /\ folder' = d
  /\ store_name' = sn
  /\ store' = None
  /\ pdf_files' = << >>
  /\ idx' = 0
  /\ uploaded_file' = << >>
  /\ op' = NoOp
  /\ polls' = 0
  /\ err' = NoErr
  /\ remoteOp' = "none"
  /\ jobs' = << >>
  /\ uploads' = << >>
  /\ imports' = << >>
  /\ nWait' = 0
  /\ nFetch' = 0
  /\ nCreate' = 0
  /\ reported' = << >>
  /\ UNCHANGED << apiKey, resolved, stores, docs >>

\* the store names a caller may pass: none, an unknown one, one that exists
StoreArgs == { None, "", MissingStore } \cup stores

(***************************************************************************)
(* The entry points.                                                       *)
(***************************************************************************)
\* ingest_pdfs.py main: ingest_pdfs(folder, store_name, display_name)
CallIngestPdfs ==
  \E d \in Folders, sn \in StoreArgs \ { "" } :
    /\ StartCall("folder", << >>, d, sn)
    /\ pc' = "get_client"
    /\ ret' = NoRet
    /\ UNCHANGED session_store

\* app.py ingest_uploaded_pdfs(files, store_name, display_name): no files,
\* return (0, store_name); else write each file into the temporary
\* directory (a repeated name overwrites) and ingest that directory
CallIngestUploaded ==
  \E fs \in FileLists, sn \in StoreArgs :
    /\ StartCall("uploaded", fs, Range(fs), sn)
    /\ IF fs = << >>
         THEN /\ pc' = "returned"
              /\ ret' = [count |-> 0, store |-> sn]
         ELSE /\ pc' = "get_client"
              /\ ret' = NoRet
    /\ UNCHANGED session_store

\* app.py "Ingest selected PDFs" with nothing uploaded: a warning
ClickIngestEmpty ==
  /\ Idle
  /\ InSession
  /\ UNCHANGED ingestVars

\* app.py "Ingest selected PDFs":
\*   ingest_uploaded_pdfs(uploaded_files, store_name or None, display_name)
ClickIngest ==
  \E fs \in FileLists \ { << >> } :
    /\ StartCall("button", fs, Range(fs),
                 IF Truthy(session_store) THEN session_store ELSE None)
    /\ pc' = "get_client"
    /\ ret' = NoRet
    /\ UNCHANGED session_store

(***************************************************************************)
(* ingest_pdfs, one remote call at a time.                                 *)
(***************************************************************************)
\* get_client: RuntimeError when GEMINI_API_KEY is not set
GetClient ==
  /\ pc = "get_client"
  /\ IF apiKey
       THEN /\ pc' = "resolve"
            /\ UNCHANGED << ret, err, session_store >>
       ELSE Raise("RuntimeError")
  /\ UNCHANGED << apiKey, resolved, remoteVars, logVars, runs, entry, files,
                  folder, store_name, store, pdf_files, idx, uploaded_file,
                  op, polls >>

\* a variant of FetchStore that creates a store when the fetch finds none
FetchOrCreateStore ==
  /\ pc = "resolve"
  /\ Truthy(store_name)
  /\ nFetch' = nFetch + 1
  /\ IF store_name \notin stores
       THEN /\ store' = NewStoreName(Cardinality(stores))
            /\ stores' = stores \cup { store' }
       ELSE /\ store' = store_name
            /\ UNCHANGED stores
  /\ pc' = "glob"
  /\ resolved' = resolved \cup { store' }
  /\ UNCHANGED << apiKey, docs, remoteOp, jobs, runs, entry, files, folder,
                  store_name, pdf_files, idx, uploaded_file, op, polls,
                  uploads, imports, nWait, nCreate, reported, ret, err,
                  session_store >>

\* get_or_create_store with a truthy store_name: file_search_stores.get
FetchStore ==
  /\ pc = "resolve"
  /\ Truthy(store_name)
  /\ nFetch' = nFetch + 1
  /\ \E fail \in BOOLEAN :
       IF store_name \notin stores
         THEN /\ Raise("NotFoundError")
              /\ UNCHANGED store
         ELSE IF fail
           THEN /\ Raise("TransientError")
                /\ UNCHANGED store
           ELSE /\ store' = store_name
                /\ pc' = "glob"
                /\ UNCHANGED << ret, err, session_store >>
  /\ resolved' = IF store' = None THEN resolved ELSE resolved \cup { store' }
  /\ UNCHANGED << apiKey, remoteVars, runs, entry, files, folder,
                  store_name, pdf_files, idx, uploaded_file, op, polls,
                  uploads, imports, nWait, nCreate, reported >>

\* get_or_create_store without one: file_search_stores.create
CreateStore ==
  /\ pc = "resolve"
  /\ ~Truthy(store_name)
  /\ nCreate' = nCreate + 1
  /\ \E fail \in BOOLEAN :
       IF fail
         THEN /\ Raise("TransientError")
              /\ UNCHANGED << store, stores >>
         ELSE /\ store' = NewStoreName(Cardinality(stores))
              /\ stores' = stores \cup { store' }
              /\ pc' = "glob"
              /\ UNCHANGED << ret, err, session_store >>
  /\ resolved' = IF store' = None THEN resolved ELSE resolved \cup { store' }
  /\ UNCHANGED << apiKey, docs, remoteOp, jobs, runs, entry, files, folder,
                  store_name, pdf_files, idx, uploaded_file, op, polls,
                  uploads, imports, nWait, nFetch, reported >>

\* pdf_files = list(folder_path.glob("*.pdf")), in the order the file
\* system lists them; none: return (None)
Glob ==
  /\ pc = "glob"
  /\ \E p \in Perms({ f \in folder : Matches(f) }) :
       /\ pdf_files' = p
       /\ IF p = << >>
            THEN /\ Return(None)
                 /\ UNCHANGED idx
            ELSE /\ pc' = "upload"
                 /\ idx' = 1
                 /\ UNCHANGED << ret, err, session_store >>
  /\ UNCHANGED << apiKey, resolved, remoteVars, logVars, runs, entry, files,
                  folder, store_name, store, uploaded_file, op, polls >>

book_title == pdf_files[idx].stem

\* file_resource_name(book_title) of every file name, by the number of
\* uploads the call made before: the uuid drawn is fresh each time
UploadNames ==
  [f \in FileNames |->
     [n \in 0..MaxFiles |->
        file_resource_name(f.stem, HexSuffix(FreshUuid(n)))]]

\* client.files.upload(file, config={name, display_name})
Upload ==
  /\ pc = "upload"
  /\ \E fail \in BOOLEAN :
       LET name == UploadNames[pdf_files[idx]][Len(uploads)] IN
       /\ uploads' = Append(uploads, [name |-> name,
                                      display_name |-> book_title,
                                      ok |-> ~fail])
       /\ IF fail
            THEN /\ Raise("UploadError")
                 /\ UNCHANGED uploaded_file
            ELSE /\ uploaded_file' = FilesPrefix \o name
                 /\ pc' = "import"
                 /\ UNCHANGED << ret, err, session_store >>
  /\ UNCHANGED << apiKey, resolved, remoteVars, runs, entry, files, folder,
                  store_name, store, pdf_files, idx, op, polls, imports,
                  nWait, nFetch, nCreate, reported >>

\* the service takes the import job of file i to the state st: on success
\* the document is indexed
Finish(i, st) ==
  /\ jobs' = [k \in 1..Max(i, Len(jobs)) |-> IF k = i THEN st ELSE jobs[k]]
  /\ remoteOp' = IF i = Max(i, Len(jobs)) THEN st ELSE remoteOp
  /\ docs' = IF st = "ok"
               THEN docs \cup { [store |-> store, title |-> pdf_files[i].stem] }
               ELSE docs

\* the handle the service gives for the job's present state
Handle(st) == [done |-> st # "running", error |-> st = "failed"]

\* op = client.file_search_stores.import_file(...), then the call of
\* wait_for_operation(client, op)
ImportFile ==
  /\ pc = "import"
  /\ \E fail \in BOOLEAN, st \in { "running", "ok", "failed" } :
       /\ imports' = Append(imports,
                            [file_search_store_name |-> store,
                             file_name |-> uploaded_file,
                             custom_metadata |-> Metadata(book_title),
                             ok |-> ~fail])
       /\ IF fail
            THEN /\ Raise("ImportError")
                 /\ UNCHANGED << op, remoteOp, jobs, docs, nWait, polls >>
            ELSE /\ Finish(Len(jobs) + 1, st)
                 /\ op' = Handle(st)
                 /\ nWait' = nWait + 1
                 /\ polls' = 0
                 /\ pc' = "wait"
                 /\ UNCHANGED << ret, err, session_store >>
  /\ UNCHANGED << apiKey, resolved, stores, runs, entry, files, folder,
                  store_name, store, pdf_files, idx, uploaded_file, uploads,
                  nFetch, nCreate, reported >>

\* the service, between two polls
RemoteProgress ==
  /\ pc = "wait"
  /\ \E i \in DOMAIN jobs, st \in { "ok", "failed" } :
       /\ jobs[i] = "running"
       /\ Finish(i, st)
  /\ UNCHANGED << sessionVars, stores, callVars, logVars >>

\* a variant of Poll that drops the handle operations.get returns
PollNoAssign ==
  /\ pc = "wait"
  /\ ~op.done
  /\ polls <= MaxPolls
  /\ polls' = polls + 1
  /\ \E fail \in BOOLEAN :
       IF fail
         THEN Raise("PollError")
         ELSE UNCHANGED << pc, ret, err, session_store >>
  /\ UNCHANGED << apiKey, resolved, remoteVars, logVars, runs, entry, files,
                  folder, store_name, store, pdf_files, idx, uploaded_file, op >>

\* a variant of Poll that gives up: the handle it leaves counts as done
PollGivesUp ==
  /\ pc = "wait"
  /\ ~op.done
  /\ remoteOp = "running" => polls < MaxPolls
  /\ polls' = polls + 1
  /\ op' = [done |-> TRUE, error |-> remoteOp = "failed"]
  /\ UNCHANGED << pc, ret, err, session_store >>
  /\ UNCHANGED << apiKey, resolved, remoteVars, logVars, runs, entry, files,
                  folder, store_name, store, pdf_files, idx, uploaded_file >>

\* wait_for_operation, one turn of the loop: time.sleep(5);
\* op = client.operations.get(op)
Poll ==
  /\ pc = "wait"
  /\ ~op.done
  /\ remoteOp = "running" => polls < MaxPolls
  /\ polls' = polls + 1
  /\ \E fail \in BOOLEAN :
       IF fail
         THEN /\ Raise("PollError")
              /\ UNCHANGED op
         ELSE /\ op' = Handle(remoteOp)
              /\ UNCHANGED << pc, ret, err, session_store >>
  /\ UNCHANGED << apiKey, resolved, remoteVars, logVars, runs, entry, files,
                  folder, store_name, store, pdf_files, idx, uploaded_file >>

\* a variant of WaitReturn that does not wait for op.done
WaitReturnEarly ==
  /\ pc = "wait"
  /\ reported' = Append(reported, [title |-> book_title, error |-> op.error])
  /\ IF idx = Len(pdf_files)
       THEN /\ Return(store)
            /\ UNCHANGED idx
       ELSE /\ idx' = idx + 1
            /\ pc' = "upload"
            /\ UNCHANGED << ret, err, session_store >>
  /\ UNCHANGED << apiKey, resolved, remoteVars, runs, entry, files, folder,
                  store_name, store, pdf_files, uploaded_file, op, polls,
                  uploads, imports, nWait, nFetch, nCreate >>

\* wait_for_operation returns op (op.done holds); "[PDF idx] Indexed" is
\* printed; the loop goes to the next file or ingest_pdfs returns store.name
WaitReturn ==
  /\ pc = "wait"
  /\ op.done
  /\ reported' = Append(reported, [title |-> book_title, error |-> op.error])
  /\ IF idx = Len(pdf_files)
       THEN /\ Return(store)
            /\ UNCHANGED idx
       ELSE /\ idx' = idx + 1
            /\ pc' = "upload"
            /\ UNCHANGED << ret, err, session_store >>
  /\ UNCHANGED << apiKey, resolved, remoteVars, runs, entry, files, folder,
                  store_name, store, pdf_files, uploaded_file, op, polls,
                  uploads, imports, nWait, nFetch, nCreate >>

(***************************************************************************)
(* file_resource_name as a function of its title and its uuid.             *)
(***************************************************************************)
\* the characters titles are made of: ASCII letters, a digit, a hyphen,
\* other punctuation, a blank, and letters outside ASCII
TitleChars ==
  { "a", "Z", "7", "-", " ", "_", "U+00E9", "U+0130", "U+66F8", "U+1D400" }

\* the heads and tails of the titles
Affixes == UNION { [1..n -> TitleChars] : n \in 0..MaxAffix }

\* max_base for an 8-character suffix
MaxBase == MaxResourceLen - SuffixLen - 1

\* the lengths of the run of one character in the middle of a title:
\* none, around max_base, and beyond the whole limit
FillLens == { 0, MaxBase - 1, MaxBase, MaxBase + 1, MaxResourceLen + 5 }

\* the titles: a head, a run of "x" or of "-", a tail
Titles ==
  { h \o [i \in 1..n |-> c] \o t :
      h \in Affixes, t \in Affixes, n \in FillLens, c \in { "x", "-" } }

\* the uuids drawn: the smallest, and one with letters among its digits
SampleUuids == { 0, 439041101 }

NameOff ==
  /\ frn_value = << >>
  /\ frn_suffix = << >>
  /\ frn_resource = << >>
  /\ frn_done = FALSE

NameInit ==
  /\ frn_value \in Titles
  /\ frn_suffix \in { HexSuffix(u) : u \in SampleUuids }
  /\ frn_resource = << >>
  /\ frn_done = FALSE

\* resource = file_resource_name(value)
CallFileResourceName ==
  /\ ~frn_done
  /\ frn_resource' = file_resource_name(frn_value, frn_suffix)
  /\ frn_done' = TRUE
  /\ UNCHANGED << frn_value, frn_suffix >>

(***************************************************************************)
(* Queries: app.py ask_question and suggest_questions, query.py main.      *)
(* An optional value (a field that may be None) is a sequence of at most   *)
(* one element.  The functions keep nothing between calls: a behaviour     *)
(* follows one call.                                                       *)
(***************************************************************************)
Absent == << >>

Some(x) == << x >>

\* the cap of a citation snippet
SnippetCap == 400

Ellipsis == << ".", ".", "." >>

\* str.replace("\n", " ")
ReplaceNewlines(text) ==
  [i \in DOMAIN text |-> IF text[i] = "\n" THEN " " ELSE text[i]]

\* ctx.text or ""
TextOrEmpty(opt) == IF opt = Absent THEN << >> ELSE opt[1]

\* a variant of AppSnippet that marks a long text and does not cut it
AppSnippetUncut(ctx_text) ==
  LET text == ReplaceNewlines(TextOrEmpty(ctx_text))
  IN  text \o (IF Len(text) > SnippetCap THEN Ellipsis ELSE << >>)

\* a variant of AppSnippet that appends the ellipsis from the cap on
AppSnippetEager(ctx_text) ==
  LET text == ReplaceNewlines(TextOrEmpty(ctx_text))
  IN  Take(text, SnippetCap) \o (IF Len(text) >= SnippetCap THEN Ellipsis ELSE << >>)

\* app.py: text = (ctx.text or "").replace("\n", " ")
\*         snippet = text[:400] + ("..." if len(text) > 400 else "")
AppSnippet(ctx_text) ==
  LET text == ReplaceNewlines(TextOrEmpty(ctx_text))
  IN  Take(text, SnippetCap) \o (IF Len(text) > SnippetCap THEN Ellipsis ELSE << >>)

\* query.py: text = ctx.text or ""
\*   snippet = text[:400].replace("\n", " ") + ("..." if len(text) > 400 else "")
QuerySnippet(ctx_text) ==
  LET text == TextOrEmpty(ctx_text)
  IN  ReplaceNewlines(Take(text, SnippetCap))
        \o (IF Len(text) > SnippetCap THEN Ellipsis ELSE << >>)

\* ctx.title or "Unknown Source"
TitleOrUnknown(opt) ==
  IF opt = Absent \/ opt = Some("") THEN "Unknown Source" ELSE opt[1]

\* a variant of AskMetadataFilter that leaves the quotes out
AskMetadataFilterBare(source_type) ==
  IF Truthy(source_type) THEN "source_type=" \o source_type ELSE None

\* app.py ask_question: metadata_filter
AskMetadataFilter(source_type) ==
  IF Truthy(source_type) THEN "source_type=\"" \o source_type \o "\"" ELSE None

\* app.py suggest_questions: metadata_filter
SuggestMetadataFilter(source_type) ==
  IF Truthy(source_type) THEN "source_type=\"" \o source_type \o "\"" ELSE None

\* query.py build_metadata_filter
build_metadata_filter(source_type) ==
  IF ~Truthy(source_type) THEN None ELSE "source_type=\"" \o source_type \o "\""

\* types.FileSearch(file_search_store_names=[store_name], metadata_filter=...)
\* inside types.Tool, inside the generate_content call
GenerateRequest(contents, name, metadata_filter) ==
  [model |-> "gemini-2.5-flash",
   contents |-> contents,
   tools |-> << [file_search |->
                   [file_search_store_names |-> << name >>,
                    metadata_filter |-> metadata_filter]] >>]

\* the prompt of suggest_questions
SuggestPrompt(count) ==
  "You are a helpful tutor. Propose " \o ToString(count)
    \o " specific, thought-provoking questions someone should explore "
    \o "after studying the uploaded PDFs. Each question must be grounded in the "
    \o "documents and include enough context to understand what to look for."

\* a chunk text of the given length, newlines at the positions nl
MakeText(len, nl) ==
  [i \in 1..len |-> IF i \in nl THEN "\n" ELSE IF i % 2 = 1 THEN "a" ELSE "b"]

TextLens ==
  { 0, 1, 50, SnippetCap - 1, SnippetCap, 500 }
    \cup { SnippetCap + d : d \in 1..MaxOver }

NewlinePlaces == { { }, { 1, 50 }, { SnippetCap, SnippetCap + 1 } }

Texts == { MakeText(l, nl) : l \in TextLens, nl \in NewlinePlaces }

\* a grounding chunk with a retrieved context
Chunk(title, text) ==
  [retrieved_context |-> Some([title |-> title, text |-> text])]

\* a grounding chunk without one
BareChunk == [retrieved_context |-> Absent]

\* the chunks that appear in longer chunk lists
FewChunks ==
  { BareChunk,
    Chunk(Absent, Some(MakeText(50, { 1 }))),
    Chunk(Some("Book A"), Absent),
    Chunk(Some("Book B"), Some(MakeText(500, { SnippetCap }))) }

\* the longest list of grounding chunks
MaxChunks == 2

ChunkLists ==
  UNION { [1..n -> FewChunks] : n \in 0..MaxChunks }
    \cup { << Chunk(Some("Book A"), Some(t)) >> : t \in Texts }

\* candidate.grounding_metadata: absent, with grounding_chunks None, or
\* with a list of chunks
Groundings ==
  { Absent, Some([grounding_chunks |-> Absent]) }
    \cup { Some([grounding_chunks |-> Some(cs)]) : cs \in ChunkLists }

\* the responses of generate_content: text None, empty or an answer;
\* no candidate or one
Responses ==
  { [text |-> a, candidates |-> c] :
      a \in { Absent, Some("An answer.") },
      c \in { << >> } \cup { << [grounding_metadata |-> g] >> : g \in Groundings } }

NoResponse == [text |-> Absent, candidates |-> << >>]

NoRequest == GenerateRequest("", "", None)

NoArgs == [question |-> "", store_name |-> "", source_type |-> None]

Questions == { "What does the author say about the ego?" }

QueryStores == { ExistingStore, NewStoreName(1) }

SourceTypes == { None, "", "book", "notes" }

\* chunks = getattr(gm, "grounding_chunks", []) if gm else []
\* (None when the metadata is there and holds no list)
GroundingChunks(resp) ==
  LET gm == resp.candidates[1].grounding_metadata
  IN  IF gm = Absent THEN Some(<< >>) ELSE gm[1].grounding_chunks

\* app.py ask_question, the loop over the chunks
RECURSIVE AskCitations(_)
AskCitations(chunks) ==
  IF chunks = << >> THEN << >>
  ELSE LET ctx == Head(chunks).retrieved_context
       IN  IF ctx = Absent
             THEN AskCitations(Tail(chunks))
             ELSE << [title |-> TitleOrUnknown(ctx[1].title),
                      text |-> AppSnippet(ctx[1].text)] >>
                    \o AskCitations(Tail(chunks))

\* query.py main, the loop over the chunks: i counts every chunk
RECURSIVE MainCitations(_, _)
MainCitations(chunks, i) ==
  IF chunks = << >> THEN << >>
  ELSE LET ctx == Head(chunks).retrieved_context
       IN  IF ctx = Absent
             THEN MainCitations(Tail(chunks), i + 1)
             ELSE << [index |-> i,
                      title |-> TitleOrUnknown(ctx[1].title),
                      text |-> QuerySnippet(ctx[1].text)] >>
                    \o MainCitations(Tail(chunks), i + 1)

QueryOff ==
  /\ q_fn = "none"
  /\ q_args = NoArgs
  /\ request = NoRequest
  /\ response = NoResponse
  /\ answer = ""
  /\ citations = << >>
  /\ printed = << >>
  /\ q_err = NoErr
  /\ q_calls = << >>
  /\ s_count = 0
  /\ s_text = Absent
  /\ questions = << >>

\* ask_question and main take no count and return no question list
NoSuggestion ==
  /\ s_count' = 0
  /\ s_text' = Absent
  /\ questions' = << >>

\* get_client() and, when it returned a client, generate_content(...)
CallsMade == IF apiKey THEN << "get_client", "generate_content" >> ELSE << "get_client" >>

\* a query function is left by an exception before it has a response
QueryRaise(e) ==
  /\ q_err' = e
  /\ response' = NoResponse
  /\ answer' = ""
  /\ citations' = << >>
  /\ printed' = << >>

\* app.py ask_question(question, store_name, source_type)
AskQuestion ==
  /\ q_fn = "none"
  /\ \E q \in Questions, sn \in QueryStores, st \in SourceTypes,
        resp \in Responses, fail \in BOOLEAN :
    /\ q_fn' = "ask_question"
    /\ q_args' = [question |-> q, store_name |-> sn, source_type |-> st]
    /\ q_calls' = CallsMade
    /\ NoSuggestion
    /\ IF ~apiKey
         THEN /\ request' = NoRequest
              /\ QueryRaise("RuntimeError")
         ELSE /\ request' = GenerateRequest(q, sn, AskMetadataFilter(st))
              /\ IF fail
                   THEN QueryRaise("TransientError")
                   ELSE /\ response' = resp
                        /\ printed' = << >>
                        /\ IF resp.candidates = << >>
                             THEN /\ q_err' = "IndexError"
                                  /\ answer' = ""
                                  /\ citations' = << >>
                             ELSE IF GroundingChunks(resp) = Absent
                               THEN /\ q_err' = "TypeError"
                                    /\ answer' = ""
                                    /\ citations' = << >>
                               ELSE /\ q_err' = NoErr
                                    /\ answer' = IF resp.text = Absent
                                                   THEN "" ELSE resp.text[1]
                                    /\ citations' =
                                         AskCitations(GroundingChunks(resp)[1])

\* query.py main with the arguments argparse lets through: a question, a
\* store name, and --source-type book or none
QueryMain ==
  /\ q_fn = "none"
  /\ \E q \in Questions, sn \in QueryStores, st \in { None, "book" },
        resp \in Responses, fail \in BOOLEAN :
    /\ q_fn' = "main"
    /\ q_args' = [question |-> q, store_name |-> sn, source_type |-> st]
    /\ q_calls' = CallsMade
    /\ NoSuggestion
    /\ answer' = ""
    /\ citations' = << >>
    /\ IF ~apiKey
         THEN /\ request' = NoRequest
              /\ q_err' = "RuntimeError"
              /\ response' = NoResponse
              /\ printed' = << >>
         ELSE /\ request' = GenerateRequest(q, sn, build_metadata_filter(st))
              /\ IF fail
                   THEN /\ q_err' = "TransientError"
                        /\ response' = NoResponse
                        /\ printed' = << >>
                   ELSE /\ response' = resp
                        /\ IF resp.candidates = << >>
                             THEN /\ q_err' = "IndexError"
                                  /\ printed' = << >>
                             ELSE /\ q_err' = NoErr
                                  /\ printed' =
                                       IF GroundingChunks(resp) = Absent
                                         THEN << >>
                                         ELSE MainCitations(
                                                GroundingChunks(resp)[1], 1)

\* the longest response of suggest_questions, in lines
MaxLines == 4

\* the default of the count argument
DefaultCount == 3

\* the length a question must exceed: len(q) > 10
MinQuestionLen == 10

\* the characters suggest_questions trims from a line: q.strip(" -*\n\r\t")
TrimChars == { " ", "-", "*", "\n", "\r", "\t" }

\* the characters q.strip() removes: Python's white space, here the ASCII
\* ones, the vertical tab, the form feed and the no-break space
PyWhitespace == Whitespace \cup { "U+000B", "U+000C", "U+00A0" }

\* text.split("\n")
RECURSIVE Split(_)
Split(text) ==
  IF \A i \in DOMAIN text : text[i] # "\n"
    THEN << text >>
    ELSE LET k == CHOOSE i \in DOMAIN text :
                    text[i] = "\n" /\ \A j \in 1..(i - 1) : text[j] # "\n"
         IN  << SubSeq(text, 1, k - 1) >> \o Split(SubSeq(text, k + 1, Len(text)))

\* a variant of ParseQuestions that cuts to count before it drops the
\* short lines
ParseQuestionsCutFirst(text_opt, count) ==
  LET text    == TextOrEmpty(text_opt)
      kept    == SelectSeq(Split(text), LAMBDA q : Strip(q, PyWhitespace) # << >>)
      trimmed == [i \in DOMAIN kept |-> Strip(kept[i], TrimChars)]
  IN  SelectSeq(Take(trimmed, count), LAMBDA q : Len(q) > MinQuestionLen)

\* app.py suggest_questions, from response.text to the list returned:
\*   text = response.text or ""
\*   questions = [q.strip(" -*\n\r\t") for q in text.split("\n") if q.strip()]
\*   questions = [q for q in questions if len(q) > 10][:count]
ParseQuestions(text_opt, count) ==
  LET text    == TextOrEmpty(text_opt)
      kept    == SelectSeq(Split(text), LAMBDA q : Strip(q, PyWhitespace) # << >>)
      trimmed == [i \in DOMAIN kept |-> Strip(kept[i], TrimChars)]
  IN  Take(SelectSeq(trimmed, LAMBDA q : Len(q) > MinQuestionLen), count)

\* a line body of n characters: the letter c, text with " - " in it, "?"
Content(n, c) ==
  [i \in 1..n |->
     IF i = 1 THEN c
     ELSE IF i = n THEN "?"
     ELSE IF i \in { 3, 5 } THEN " "
     ELSE IF i = 4 THEN "-"
     ELSE "x"]

\* the lines of the responses: an empty one, one of blanks and markup, a
\* bulleted question of 11 characters, a starred one of exactly 10, and an
\* indented one of 12 that ends in a carriage return
LineKinds ==
  { << >>,
    << " ", "-", "U+00A0" >>,
    << "-", " " >> \o Content(MinQuestionLen + 1, "A"),
    << "*", " " >> \o Content(MinQuestionLen, "B") \o << " " >>,
    << "\t" >> \o Content(MinQuestionLen + 2, "C") \o << "\r" >> }

\* "\n".join(lines)
RECURSIVE JoinLines(_)
JoinLines(lines) ==
  IF lines = << >> THEN << >>
  ELSE IF Len(lines) = 1 THEN lines[1]
  ELSE lines[1] \o << "\n" >> \o JoinLines(Tail(lines))

\* response.text of the suggestion request: None or lines of the above
SuggestTexts ==
  { Absent }
    \cup { Some(JoinLines(ls)) :
             ls \in UNION { [1..n -> LineKinds] : n \in 0..MaxLines } }

\* the counts asked for
Counts == { 0, 1, DefaultCount }

\* a variant of StoreNameMissing that lets the empty name through
StoreNameIsNone(name) == name = None

\* suggest_questions: if not store_name
StoreNameMissing(name) == ~Truthy(name)

\* app.py suggest_questions(store_name, source_type, count)
SuggestQuestions ==
  /\ q_fn = "none"
  /\ \E sn \in QueryStores \cup { "", None }, st \in SourceTypes, n \in Counts :
    /\ q_fn' = "suggest_questions"
    /\ q_args' = [question |-> "", store_name |-> sn, source_type |-> st]
    /\ s_count' = n
    /\ response' = NoResponse
    /\ answer' = ""
    /\ citations' = << >>
    /\ printed' = << >>
    /\ IF StoreNameMissing(sn)
         THEN /\ request' = NoRequest
              /\ q_err' = "ValueError"
              /\ q_calls' = << >>
              /\ s_text' = Absent
              /\ questions' = << >>
         ELSE /\ q_calls' = CallsMade
              /\ IF ~apiKey
                   THEN /\ request' = NoRequest
                        /\ q_err' = "RuntimeError"
                        /\ s_text' = Absent
                        /\ questions' = << >>
                   ELSE /\ request' = GenerateRequest(SuggestPrompt(n), sn,
                                                      SuggestMetadataFilter(st))
                        /\ \/ /\ q_err' = "TransientError"
                              /\ s_text' = Absent
                              /\ questions' = << >>
                           \/ \E t \in SuggestTexts :
                                /\ q_err' = NoErr
                                /\ s_text' = t
                                /\ questions' = ParseQuestions(t, n)

(***************************************************************************)
(* app.py push_history and the session's history.                          *)
(***************************************************************************)
\* the push_history calls followed in a session
MaxPushes == 6

\* the length an answer is stored up to: answer[:300]
AnswerCap == 300

\* the earlier entries kept by a push: history[:4]
HistoryKept == 4

\* a variant of push_history that keeps five earlier entries
push_history_keeps_five(h, q, a) ==
  << [question |-> q,
      answer |-> Take(a, AnswerCap)
                   \o (IF Len(a) > AnswerCap THEN Ellipsis ELSE << >>)] >>
    \o Take(h, HistoryKept + 1)

\* push_history(question, answer) with q the question and a the answer:
\* the new st.session_state["history"], h being the one before
push_history(h, q, a) ==
  << [question |-> q,
      answer |-> Take(a, AnswerCap)
                   \o (IF Len(a) > AnswerCap THEN Ellipsis ELSE << >>)] >>
    \o Take(h, HistoryKept)

\* the answers pushed: of one character, of 300, of 301, and one of 350
\* with a newline and a sentence end within the first 300
Answers ==
  { MakeText(1, { }), MakeText(AnswerCap, { }), MakeText(AnswerCap + 1, { }),
    [i \in 1..(AnswerCap + 50) |->
       IF i = 7 THEN "\n" ELSE IF i = AnswerCap THEN "." ELSE "c"] }

\* the question of the n-th push: questions differ from push to push
QuestionNo(n) == "Question " \o ToString(n)

HistoryOff ==
  /\ history = << >>
  /\ pushed = << >>

\* a call of push_history
PushHistory ==
  /\ Len(pushed) < MaxPushes
  /\ \E answer0 \in Answers :
       LET question0 == QuestionNo(Len(pushed) + 1) IN
       /\ history' = push_history(history, question0, answer0)
       /\ pushed' = Append(pushed, [question |-> question0, answer |-> answer0])

(***************************************************************************)
(* The specifications.                                                     *)
(***************************************************************************)
vars == << ingestVars, nameVars, queryVars, historyVars >>

\* the ingest variables of a process that ingests nothing
IngestOff == IngestInit /\ apiKey /\ session_store = ""

Init == IngestInit /\ NameOff /\ QueryOff /\ HistoryOff

Next ==
  \/ CallIngestPdfs /\ UNCHANGED << nameVars, queryVars, historyVars >>
  \/ CallIngestUploaded /\ UNCHANGED << nameVars, queryVars, historyVars >>
  \/ ClickIngestEmpty /\ UNCHANGED << nameVars, queryVars, historyVars >>
  \/ ClickIngest /\ UNCHANGED << nameVars, queryVars, historyVars >>
  \/ GetClient /\ UNCHANGED << nameVars, queryVars, historyVars >>
  \/ FetchStore /\ UNCHANGED << nameVars, queryVars, historyVars >>
  \/ CreateStore /\ UNCHANGED << nameVars, queryVars, historyVars >>
  \/ Glob /\ UNCHANGED << nameVars, queryVars, historyVars >>
  \/ Upload /\ UNCHANGED << nameVars, queryVars, historyVars >>
  \/ ImportFile /\ UNCHANGED << nameVars, queryVars, historyVars >>
  \/ RemoteProgress /\ UNCHANGED << nameVars, queryVars, historyVars >>
  \/ Poll /\ UNCHANGED << nameVars, queryVars, historyVars >>
  \/ WaitReturn /\ UNCHANGED << nameVars, queryVars, historyVars >>

\* ingestion: a command line run or a Streamlit session
Spec == Init /\ [][Next]_vars

\* the statements of ingest_pdfs between its call and its return, but for
\* the poll: a process that runs takes its next statement
ProgramStep ==
  GetClient \/ FetchStore \/ CreateStore \/ Glob \/ Upload \/ ImportFile
    \/ WaitReturn

\* the process keeps running, the loop of wait_for_operation keeps
\* polling, and the service finishes every import job it was given
Fairness ==
  /\ WF_vars(ProgramStep /\ UNCHANGED << nameVars, queryVars, historyVars >>)
  /\ WF_vars(Poll /\ UNCHANGED << nameVars, queryVars, historyVars >>)
  /\ WF_vars(RemoteProgress /\ UNCHANGED << nameVars, queryVars, historyVars >>)

\* ingestion under a scheduler and a service that do not stop
SpecLive == Init /\ [][Next]_vars /\ Fairness

NameNext ==
  CallFileResourceName /\ UNCHANGED << ingestVars, queryVars, historyVars >>

\* file_resource_name on every title and uuid of the model
SpecNameInit == IngestOff /\ NameInit /\ QueryOff /\ HistoryOff

SpecName == SpecNameInit /\ [][NameNext]_vars

QueryInit ==
  IngestInit /\ session_store = "" /\ NameOff /\ QueryOff /\ HistoryOff

QueryNext ==
  \/ AskQuestion /\ UNCHANGED << ingestVars, nameVars, historyVars >>
  \/ QueryMain /\ UNCHANGED << ingestVars, nameVars, historyVars >>
  \/ SuggestQuestions /\ UNCHANGED << ingestVars, nameVars, historyVars >>

\* the query functions on every argument and response of the model
SpecQuery == QueryInit /\ [][QueryNext]_vars

HistoryInit == IngestOff /\ NameOff /\ QueryOff /\ HistoryOff

HistoryNext == PushHistory /\ UNCHANGED << ingestVars, nameVars, queryVars >>

\* the history of a session under any sequence of push_history calls
SpecHistory == HistoryInit /\ [][HistoryNext]_vars

(***************************************************************************)
(* Properties of ingestion.                                                *)
(***************************************************************************)
\* the PDF files the folder of the call holds
NMatching == Cardinality({ f \in folder : Matches(f) })

\* the call returned to its caller and no exception left it
ReturnedClean == pc = "returned" /\ err = NoErr

\* C1: a call of ingest on a folder of N matching PDF files in which no
\* remote call fails issues exactly N uploads, N import submissions and N
\* waits; every import carries exactly the entries source_type="book" and
\* book_title=<the file's title>, each matching file once, and all name
\* the one store resolved at the start of the call.
C1_NCallsPerBatch ==
  ReturnedClean =>
    /\ Len(uploads) = NMatching
    /\ Len(imports) = NMatching
    /\ nWait = NMatching
    /\ { pdf_files[i] : i \in DOMAIN pdf_files } = { f \in folder : Matches(f) }
    /\ Len(pdf_files) = NMatching
    /\ \A i \in DOMAIN imports :
         LET m == imports[i].custom_metadata IN
         /\ Len(m) = 2
         /\ m[1] = [key |-> "source_type", string_value |-> << "book" >>]
         /\ m[2] = [key |-> "book_title", string_value |-> pdf_files[i].stem]
         /\ uploads[i].display_name = pdf_files[i].stem
         /\ imports[i].file_name = FilesPrefix \o uploads[i].name
         /\ imports[i].file_search_store_name = store
    /\ NMatching > 0 =>
         /\ store \in stores
         /\ Truthy(store_name) => store = store_name
         /\ nFetch + nCreate = 1

\* C1 witness: a call over two PDF files has returned
C1_Witness == ReturnedClean /\ NMatching = 2 /\ Len(imports) = 2

\* C2: a call that returns without error returns (count, storeId) with
\* count the number of files uploaded and imported in the call and storeId
\* the store resolved for the call, through either entry point.
C2_ReturnsCountAndStore ==
  ReturnedClean /\ runs > 0 =>
    /\ ret.count = Len(imports)
    /\ store # None => ret.store = store

\* C3: ingest on a folder without a matching PDF file and without a store
\* name returns count = 0, does not raise, and issues no upload or import.
C3_ZeroPdfsCountZero ==
  ReturnedClean /\ runs > 0 /\ NMatching = 0 /\ ~Truthy(store_name) =>
    /\ ret.count = 0
    /\ uploads = << >>
    /\ imports = << >>

\* the errors of the remote calls made for one file
FileErrors == { "UploadError", "ImportError", "PollError" }

\* C4: when the upload, the import or the wait of file k fails the call
\* ends there with the error: file k is the last one any call was issued
\* for, every call before it was issued once and succeeded, and the files
\* before k whose import succeeded are indexed in the store.
C4_FailureAbortsBatch ==
  err # NoErr =>
    /\ pc = "raised"
    /\ ret = NoRet
    /\ err \in FileErrors =>
         /\ idx \in DOMAIN pdf_files
         /\ Len(uploads) = idx
         /\ Len(imports) = IF err = "UploadError" THEN idx - 1 ELSE idx
         /\ nWait = IF err = "PollError" THEN idx ELSE idx - 1
         /\ Len(reported) = idx - 1
         /\ \A i \in 1..Len(uploads) :
              /\ uploads[i].display_name = pdf_files[i].stem
              /\ uploads[i].ok = (i < idx \/ err # "UploadError")
         /\ \A i \in 1..Len(imports) :
              /\ imports[i].custom_metadata[2].string_value = pdf_files[i].stem
              /\ imports[i].ok = (i < idx \/ err # "ImportError")
         /\ \A i \in 1..(idx - 1) :
              ~reported[i].error =>
                [store |-> store, title |-> pdf_files[i].stem] \in docs

\* C4 witness: the second file's import failed after the first was indexed
C4_Witness ==
  /\ pc = "raised"
  /\ err = "ImportError"
  /\ idx = 2
  /\ [store |-> store, title |-> pdf_files[1].stem] \in docs

\* C5: an import that ends with an error status is surfaced: its file is
\* not reported as indexed and the call does not return as if it succeeded.
C5_FailedImportSurfaced ==
  \A i \in DOMAIN reported : ~reported[i].error

\* C6: store resolution makes one remote call: a fetch and no create when a
\* store name is given, a create and no fetch when none is; a fetch that
\* finds no store raises, and then nothing is created, uploaded or imported.
C6_OneResolveCall ==
  /\ nFetch + nCreate <= 1
  /\ Truthy(store_name) => nCreate = 0
  /\ ~Truthy(store_name) => nFetch = 0
  /\ pc \in { "glob", "upload", "import", "wait" } \/ store # None =>
       /\ nFetch + nCreate = 1
       /\ store \in stores
       /\ Truthy(store_name) => store = store_name
  /\ Truthy(store_name) /\ store_name \notin stores /\ nFetch = 1 =>
       /\ pc = "raised"
       /\ err = "NotFoundError"
       /\ store = None
       /\ stores \subseteq { ExistingStore } \cup resolved
       /\ uploads = << >>
       /\ imports = << >>

\* C6 witness: the fetch of an unknown store name has raised
C6_Witness ==
  pc = "raised" /\ err = "NotFoundError" /\ store_name = MissingStore /\ nFetch = 1

\* C7: in a session the store first resolved is the one every later import
\* and query uses: no second store is resolved, and the store a query
\* would name (the session's store) is the resolved one.
C7_OneStorePerSession ==
  entry = "button" =>
    /\ Cardinality(resolved) <= 1
    /\ Truthy(session_store) /\ resolved # { } => session_store \in resolved

(***************************************************************************)
(* Properties of file_resource_name.                                       *)
(***************************************************************************)
\* the characters a resource name may hold: a-z, 0-9 and the hyphen
ResourceChars == Range(AsciiLower) \cup AsciiDigits \cup { "-" }

\* C8: for every title and every 8-character hexadecimal suffix the name
\* file_resource_name returns holds only lowercase alphanumerics and
\* hyphens, neither starts nor ends with a hyphen, and is at most 40 long.
C8_ResourceNameValid ==
  frn_done =>
    /\ \A i \in DOMAIN frn_resource : frn_resource[i] \in ResourceChars
    /\ frn_resource # << >>
    /\ frn_resource[1] # "-"
    /\ frn_resource[Len(frn_resource)] # "-"
    /\ Len(frn_resource) <= 40

(***************************************************************************)
(* Properties of the queries.                                              *)
(***************************************************************************)
\* the file search configuration of the request built last
FileSearchOf(req) == req.tools[1].file_search

\* the filter each source type of the model must give
ExpectedFilter(source_type) ==
  CASE source_type = None -> None
    [] source_type = "" -> None
    [] source_type = "book" -> "source_type=\"book\""
    [] source_type = "notes" -> "source_type=\"notes\""

\* a request went out
Requested == q_fn # "none" /\ request # NoRequest

\* C9: without a source type (None or empty) the request carries no
\* metadata filter, with source type v it carries exactly source_type="v",
\* and it names exactly the one store given; in ask_question,
\* suggest_questions and query.py (build_metadata_filter) alike.
C9_FilterOfRequest ==
  /\ Requested =>
       /\ FileSearchOf(request).metadata_filter = ExpectedFilter(q_args.source_type)
       /\ FileSearchOf(request).file_search_store_names = << q_args.store_name >>
       /\ Len(request.tools) = 1
  /\ q_fn # "none" /\ apiKey /\ Truthy(q_args.store_name) => Requested

\* C9 witness: ask_question sent a request filtered to books
C9_Witness ==
  /\ q_fn = "ask_question"
  /\ q_args.source_type = "book"
  /\ FileSearchOf(request).metadata_filter = "source_type=\"book\""

\* the texts of the chunks that have a retrieved context, in order
RECURSIVE ContextTexts(_)
ContextTexts(chunks) ==
  IF chunks = << >> THEN << >>
  ELSE (IF Head(chunks).retrieved_context = Absent
          THEN << >>
          ELSE << TextOrEmpty(Head(chunks).retrieved_context[1].text) >>)
       \o ContextTexts(Tail(chunks))

\* snippet is the snippet the claim gives for the text t
SnippetOf(t, snippet) ==
  /\ Len(snippet) = IF Len(t) <= 400 THEN Len(t) ELSE 403
  /\ \A i \in 1..Len(t) :
       i <= 400 => snippet[i] = IF t[i] = "\n" THEN " " ELSE t[i]
  /\ Len(t) > 400 => SubSeq(snippet, 401, 403) = << ".", ".", "." >>
  /\ Len(t) = 500 => Len(snippet) = 400 + 3
  /\ Len(t) = 50 => Len(snippet) = 50 /\ snippet[50] # "."

\* the chunks of a response whose citations were extracted
ChunksOf(resp) == GroundingChunks(resp)[1]

\* C10: the snippet of a chunk text t is t with newlines replaced by
\* spaces, whole when t is at most 400 long, else its first 400
\* characters and then "..."; in ask_question and in query.py main.
C10_SnippetOfText ==
  /\ q_fn = "ask_question" /\ q_err = NoErr =>
       /\ Len(citations) = Len(ContextTexts(ChunksOf(response)))
       /\ \A i \in DOMAIN citations :
            SnippetOf(ContextTexts(ChunksOf(response))[i], citations[i].text)
  /\ q_fn = "main" /\ q_err = NoErr /\ GroundingChunks(response) # Absent =>
       /\ Len(printed) = Len(ContextTexts(ChunksOf(response)))
       /\ \A i \in DOMAIN printed :
            SnippetOf(ContextTexts(ChunksOf(response))[i], printed[i].text)

\* C10 witness: ask_question cut a 500-character text with a newline in it
C10_Witness ==
  /\ q_fn = "ask_question"
  /\ q_err = NoErr
  /\ \E i \in DOMAIN citations :
       /\ Len(ContextTexts(ChunksOf(response))[i]) = 500
       /\ ContextTexts(ChunksOf(response))[i][1] = "\n"
       /\ Len(citations[i].text) = 403

\* the service answered the call: neither the credential lookup nor the
\* request failed
GotResponse == q_fn # "none" /\ q_err \notin { "RuntimeError", "TransientError", "ValueError" }

\* the grounding chunks the response carries, none when it gives no list
ChunkListOf(resp) ==
  IF GroundingChunks(resp) = Absent THEN << >> ELSE GroundingChunks(resp)[1]

\* the chunks that have a retrieved context, in the order of the response
WithContext(chunks) ==
  SelectSeq(chunks, LAMBDA c : c.retrieved_context # Absent)

\* C11: ask returns one citation for each grounding chunk that has a
\* retrieved context, in the order of the chunks; a chunk without one gives
\* no citation and no error, a missing title becomes "Unknown Source", and
\* a response without grounding metadata or without chunks gives an empty
\* citation list and no error.
C11_OneCitationPerContext ==
  q_fn = "ask_question" /\ GotResponse /\ response.candidates # << >> =>
    LET kept == WithContext(ChunkListOf(response)) IN
    /\ q_err = NoErr
    /\ Len(citations) = Len(kept)
    /\ \A i \in DOMAIN citations :
         LET title == kept[i].retrieved_context[1].title IN
         /\ title \in { Absent, Some("") } => citations[i].title = "Unknown Source"
         /\ title \notin { Absent, Some("") } => citations[i].title = title[1]
    /\ ChunkListOf(response) = << >> => citations = << >>

\* C12: ask does not fail because the service gave no answer: a received
\* response whose text is absent, also one without candidate and without
\* grounding data, gives the answer "" and a citation list, and no error.
C12_EmptyAnswerNoFailure ==
  q_fn = "ask_question" /\ GotResponse /\ response.text = Absent =>
    /\ q_err = NoErr
    /\ answer = ""

(***************************************************************************)
(* Properties of the suggestions.                                          *)
(***************************************************************************)
\* suggest_questions returned a list
Suggested == q_fn = "suggest_questions" /\ q_err = NoErr

\* the text the suggestions were parsed from
SuggestedText == TextOrEmpty(s_text)

\* the positions before the lines of a text: 0 and those of its line breaks
LineStarts(text) == { 0 } \cup { i \in DOMAIN text : text[i] = "\n" }

\* the line that begins after position b
LineAfter(text, b) ==
  LET ends == { i \in (b + 1)..(Len(text) + 1) :
                  i = Len(text) + 1 \/ text[i] = "\n" }
      e    == CHOOSE i \in ends : \A j \in ends : i <= j
  IN  SubSeq(text, b + 1, e - 1)

\* a line without the blanks, tabs, carriage returns, hyphens and stars at
\* its two ends
Trimmed(line) ==
  LET inner == { i \in DOMAIN line : line[i] \notin { " ", "\t", "\r", "\n", "-", "*" } }
  IN  IF inner = { } THEN << >>
      ELSE SubSeq(line,
                  CHOOSE i \in inner : \A j \in inner : i <= j,
                  CHOOSE i \in inner : \A j \in inner : i >= j)

\* the lines whose trimmed length is greater than 10, by their positions
LongLines(text) ==
  { b \in LineStarts(text) : Len(Trimmed(LineAfter(text, b))) > 10 }

\* the place of a long line among the long lines
RankOf(text, b) == Cardinality({ c \in LongLines(text) : c < b }) + 1

NumCalls(name) == Cardinality({ i \in DOMAIN q_calls : q_calls[i] = name })

\* suggest with an empty or absent store name: ValueError, and no call
SuggestRefused ==
  q_fn = "suggest_questions" /\ ~Truthy(q_args.store_name) =>
    /\ q_err = "ValueError"
    /\ q_calls = << >>
    /\ request = NoRequest
    /\ questions = << >>

\* C14 as stated: suggest with an empty or absent store identifier fails
\* with ValueError and makes no remote call and no credential lookup; with
\* a non-empty identifier it issues exactly one generation request.
C14_OneRequestPerStore ==
  /\ SuggestRefused
  /\ q_fn = "suggest_questions" /\ Truthy(q_args.store_name) =>
       NumCalls("generate_content") = 1

\* C14 as amended: suggest with an empty or absent store identifier fails
\* with ValueError and makes no remote call and no credential lookup; with
\* a non-empty identifier it looks the credential up once and, when the API
\* key is set, issues exactly one generation request, naming that store;
\* without the key it fails with RuntimeError and issues none.
C14_OneRequestWithKey ==
  /\ SuggestRefused
  /\ q_fn = "suggest_questions" /\ Truthy(q_args.store_name) =>
       /\ NumCalls("get_client") = 1
       /\ q_calls[1] = "get_client"
       /\ apiKey =>
            /\ NumCalls("generate_content") = 1
            /\ Len(q_calls) = 2
            /\ FileSearchOf(request).file_search_store_names = << q_args.store_name >>
            /\ q_err \in { NoErr, "TransientError" }
       /\ ~apiKey =>
            /\ NumCalls("generate_content") = 0
            /\ request = NoRequest
            /\ q_err = "RuntimeError"

\* C14 witness: suggest was called with the empty store name and refused
C14_Witness ==
  /\ q_fn = "suggest_questions"
  /\ q_args.store_name = ""
  /\ q_err = "ValueError"
  /\ q_calls = << >>

(***************************************************************************)
(* Properties of the waits.                                                *)
(***************************************************************************)
\* the import jobs of the call that the service has not finished
InFlight == { i \in DOMAIN jobs : jobs[i] = "running" }

\* C15: the imports of a batch are serialized: at most one import job is
\* incomplete at any time, and the upload and the import of file k+1 are
\* issued only after the operation of file k was seen with its completion
\* flag set.
C15_ImportsSerialized ==
  /\ Cardinality(InFlight) <= 1
  /\ InFlight \subseteq { Len(jobs) }
  /\ InFlight # { } => pc \in { "wait", "raised" }
  /\ Len(uploads) <= Len(reported) + 1
  /\ Len(imports) <= Len(reported) + 1
  /\ pc \in { "upload", "import" } /\ idx > 1 =>
       /\ op.done
       /\ Len(reported) = idx - 1
       /\ Len(jobs) = idx - 1
       /\ jobs[idx - 1] # "running"
  /\ \A k \in DOMAIN uploads : k > 1 => jobs[k - 1] # "running"

\* C15 witness: the second import is in flight, the first one is complete
C15_Witness ==
  /\ pc = "wait"
  /\ Len(jobs) = 2
  /\ jobs[1] = "ok"
  /\ jobs[2] = "running"
  /\ Len(imports) = 2

\* what a step of the program may do while wait_for_operation runs
WaitStep ==
  /\ pc = "import" /\ pc' = "wait" =>
       /\ polls' = 0
       /\ op' = Handle(remoteOp')
  /\ pc = "wait" /\ op.done =>
       /\ op = Handle(remoteOp)
       /\ remoteOp # "running"
       /\ pc' \in { "upload", "returned" }
       /\ op' = op
       /\ polls' = polls
       /\ reported' = Append(reported, [title |-> book_title, error |-> op.error])
  /\ pc = "wait" /\ ~op.done =>
       /\ pc' \in { "wait", "raised" }
       /\ reported' = reported
       /\ idx' = idx
       /\ uploads' = uploads
       /\ polls' \in { polls, polls + 1 }
       /\ polls' = polls => op' = op /\ pc' = "wait"
       /\ polls' = polls + 1 /\ pc' = "wait" => op' = Handle(remoteOp)
       /\ pc' = "raised" => err' = "PollError" /\ op' = op
  /\ \A i \in DOMAIN jobs :
       jobs[i] # "running" /\ runs' = runs => jobs'[i] = jobs[i]
  /\ pc = "wait" /\ pc' = "wait" /\ op.done => op'.done

\* C16: wait returns only an operation whose completion flag is set, the
\* handle refreshed last: an operation complete on entry is returned with
\* no status call, otherwise every poll makes one status refresh, and wait
\* does not return, time out or give up while the handle refreshed last is
\* not done; an operation never goes from complete back to incomplete.
C16_WaitReturnsDone == [][WaitStep]_vars

\* C16 witness: a wait has returned after two status refreshes, the first
\* of which found the operation not done
C16_Witness ==
  /\ pc = "upload"
  /\ Len(reported) = 1
  /\ polls = 2
  /\ op.done

\* a call of ingest_pdfs is under way
InCall == pc \notin { "idle", "returned", "raised" }

\* the call has ended: by an exception, or by a return after all the PDF
\* files of the folder were uploaded, imported and waited for
Ended ==
  \/ pc = "raised"
  \/ /\ pc = "returned"
     /\ Len(uploads) = NMatching
     /\ Len(imports) = NMatching
     /\ Len(reported) = NMatching

\* while the import job of the present file is not finished the call
\* neither returns nor goes on to the next file
BlockedStep ==
  pc = "wait" /\ remoteOp = "running" /\ remoteOp' = "running" =>
    /\ pc' \in { "wait", "raised" }
    /\ pc' = "raised" => err' = "PollError"
    /\ idx' = idx
    /\ uploads' = uploads
    /\ imports' = imports
    /\ reported' = reported
    /\ ret' = ret

\* C17: when the poll step is taken again and again and every import job
\* finishes, every wait returns unless a remote call fails, and a call of
\* ingest on N files ends, having processed all N unless a remote call
\* failed; while an import job does not finish ingest does not return and
\* does not go on to the next file.
C17_IngestTerminates ==
  /\ InCall ~> Ended
  /\ (pc = "wait") ~> (pc \in { "upload", "returned" } \/ err # NoErr)
  /\ [][BlockedStep]_vars

\* C17 witness: a call over two PDF files has returned after its second
\* wait polled a running operation
C17_Witness ==
  /\ pc = "returned"
  /\ err = NoErr
  /\ NMatching = 2
  /\ Len(reported) = 2
  /\ nWait = 2
  /\ polls >= 2

(***************************************************************************)
(* Properties of the snippets.                                             *)
(***************************************************************************)
\* the snippets the call gave out: returned by ask_question, printed by main
Snippets ==
  [i \in DOMAIN citations |-> citations[i].text]
    \o [i \in DOMAIN printed |-> printed[i].text]

\* the chunk texts those snippets were made from
SnippetSources ==
  IF q_fn \in { "ask_question", "main" } /\ q_err = NoErr
    THEN ContextTexts(ChunkListOf(response))
    ELSE << >>

\* C18 as stated: the length of every citation's snippet is at most the cap
\* of 400 characters, whatever the length of the chunk text, also for
\* texts longer than the cap, where the ellipsis is appended.
C18_SnippetWithinCap ==
  \A i \in DOMAIN Snippets : Len(Snippets[i]) <= 400

\* C18 as amended: the length of every citation's snippet is at most the
\* cap of 400 characters plus the 3 characters of the ellipsis: a text of
\* at most 400 characters gives a snippet of its own length, a longer text
\* one of 403, of which the first 400 come from the text.
C18_SnippetWithinCapAndMarker ==
  /\ Len(Snippets) = Len(SnippetSources)
  /\ \A i \in DOMAIN Snippets :
       /\ Len(Snippets[i]) <= 400 + 3
       /\ Len(SnippetSources[i]) <= 400 => Len(Snippets[i]) = Len(SnippetSources[i])
       /\ Len(SnippetSources[i]) > 400 =>
            /\ Len(Snippets[i]) = 400 + 3
            /\ \A k \in 1..400 :
                 Snippets[i][k] = SnippetSources[i][k]
                   \/ (SnippetSources[i][k] = "\n" /\ Snippets[i][k] = " ")

\* C18 witness: main printed the snippet of a text of 401 characters
C18_Witness ==
  /\ q_fn = "main"
  /\ \E i \in DOMAIN Snippets :
       /\ Len(SnippetSources[i]) = 401
       /\ Len(Snippets[i]) = 403

(***************************************************************************)
(* The two query paths.                                                    *)
(***************************************************************************)
\* query.py main, from the response to the citations printed:
\*   if not chunks: return; else the loop over the chunks
MainPrints(resp) ==
  IF GroundingChunks(resp) = Absent
    THEN << >>
    ELSE MainCitations(GroundingChunks(resp)[1], 1)

\* the (title, snippet) pairs of a list of citations
Pairs(cs) == [i \in DOMAIN cs |-> [title |-> cs[i].title, text |-> cs[i].text]]

\* C19: the two query paths extract the same: for every response the
\* (title, snippet) pairs query.py main prints are the citations app.py
\* ask_question returns, chunks with or without retrieved context, titles
\* and texts of any kind; replacing newlines before the cut and after it
\* gives the same snippet.
C19_PathsAgree ==
  /\ q_fn = "ask_question" /\ GotResponse /\ response.candidates # << >> =>
       /\ q_err = NoErr
       /\ citations = Pairs(MainPrints(response))
  /\ q_fn = "main" /\ q_err = NoErr /\ GroundingChunks(response) # Absent =>
       Pairs(printed) = AskCitations(GroundingChunks(response)[1])

(***************************************************************************)
(* Properties of the history.                                              *)
(***************************************************************************)
\* the call whose entry stands at place i of the history: the i-th latest
PushOf(i) == pushed[Len(pushed) + 1 - i]

\* C20: after any sequence of push_history calls the history holds at most
\* 5 entries, newest first: the latest call's entry at place 1, earlier
\* ones in their order, the oldest dropped beyond 5; and each stored answer
\* is the pushed answer when that is at most 300 characters long, else its
\* first 300 characters followed by "...".
C20_HistoryNewestFirst ==
  /\ Len(history) <= 5
  /\ Len(history) = Min(Len(pushed), 5)
  /\ \A i \in DOMAIN history :
       /\ history[i].question = PushOf(i).question
       /\ Len(PushOf(i).answer) <= 300 => history[i].answer = PushOf(i).answer
       /\ Len(PushOf(i).answer) > 300 =>
            /\ Len(history[i].answer) = 303
            /\ \A k \in 1..300 : history[i].answer[k] = PushOf(i).answer[k]
            /\ \A k \in 301..303 : history[i].answer[k] = "."

\* C20 witness: a sixth push has dropped the first entry, and the entry it
\* put first holds a cut answer
C20_Witness ==
  /\ Len(pushed) = 6
  /\ Len(history) = 5
  /\ history[1].question = "Question 6"
  /\ history[5].question = "Question 2"
  /\ Len(pushed[6].answer) = 350
  /\ Len(history[1].answer) = 303

=============================================================================
